---- MODULE Spec2Model ----
(***************************************************************************)
(* Model of the VESC serial link driver (pokusew/vesc, vesc_driver).       *)
(*                                                                         *)
(*   vesc_packet.cpp     frame envelope, packet catalog (encoders and      *)
(*                       decoders)                                         *)
(*   vesc_interface.cpp  receive buffer, producer callback, consumer       *)
(*                       thread, connect / disconnect                      *)
(*                                                                         *)
(* Bytes are integers 0..255, buffers are sequences of bytes.  A double    *)
(* argument of an encoder is the exact rational  num / ValueDen ; with a   *)
(* power-of-two denominator and small numerators every product the         *)
(* encoders form is exact in IEEE double arithmetic as well.               *)
(***************************************************************************)
EXTENDS Integers, Sequences, FiniteSets, TLC

\* ------------------------------------------------------------------------
\* Bounds of the model
\* ------------------------------------------------------------------------
\* denominator of the encoder arguments (value = num / ValueDen), a power
\* of two so that the arguments are doubles
ValueDen == 2 ^ 3
\* encoder arguments range over -MaxNum..MaxNum eighths
MaxNum == 104
\* number of successful connect() calls explored
MaxConnects == 2

\* ------------------------------------------------------------------------
\* Protocol constants
\* ------------------------------------------------------------------------
VESC_SOF_VAL_SMALL_FRAME == 2
VESC_SOF_VAL_LARGE_FRAME == 3
VESC_EOF_VAL == 3
VESC_MIN_FRAME_SIZE == 5
VESC_MAX_PAYLOAD_SIZE == 1024

COMM_FW_VERSION == 0
COMM_GET_VALUES == 4
COMM_SET_DUTY == 5
COMM_SET_CURRENT == 6
COMM_SET_CURRENT_BRAKE == 7
COMM_SET_RPM == 8
COMM_SET_POS == 9
COMM_SET_SERVO_POS == 12

CRC_POLY == 4129
CRC_INIT == 0

\* ------------------------------------------------------------------------
\* Bit arithmetic and CRC
\* ------------------------------------------------------------------------
RECURSIVE Xor(_, _)
Xor(a, b) ==
    IF a = 0 THEN b
    ELSE IF b = 0 THEN a
    ELSE (((a % 2) + (b % 2)) % 2) + 2 * Xor(a \div 2, b \div 2)

\* n shifts of the 16-bit remainder, most significant bit first (the test
\* on the intermediate value only fixes the order of evaluation)
RECURSIVE CrcBits(_, _)
CrcBits(r, n) ==
    IF n = 0 THEN r
    ELSE LET s == IF r >= 32768
                  THEN Xor((r * 2) % 65536, CRC_POLY)
                  ELSE (r * 2) % 65536
         IN  IF s < 0 THEN s ELSE CrcBits(s, n - 1)

RECURSIVE CrcFrom(_, _, _)
CrcFrom(r, bytes, i) ==
    IF i > Len(bytes) THEN r
    ELSE LET s == CrcBits(Xor(r, bytes[i] * 256), 8)
         IN  IF s < 0 THEN s ELSE CrcFrom(s, bytes, i + 1)

\* CRC::Calculate(data, size, VescFrame::CRC_TYPE)
Calculate(bytes) == CrcFrom(CRC_INIT, bytes, 1)

\* ------------------------------------------------------------------------
\* Frame envelope
\* ------------------------------------------------------------------------
Zeros(n) == [i \in 1..n |-> 0]

\* length of the header (start marker and length field) of a frame that
\* carries payload_size bytes
HeaderSize(payload_size) == IF payload_size < 256 THEN 2 ELSE 3

\* the envelope with a one-byte length field whatever the size
VescFrameOneByteLength(payload_size) ==
    <<2, payload_size % 256>> \o Zeros(payload_size) \o <<0, 0, 3>>

\* VescFrame::VescFrame(int payload_size): zero-filled buffer with start
\* marker, length field and terminator written
VescFrame(payload_size) ==
    IF payload_size < 256
    THEN <<2, payload_size>> \o Zeros(payload_size) \o <<0, 0, 3>>
    ELSE <<3, payload_size \div 256, payload_size % 256>>
            \o Zeros(payload_size) \o <<0, 0, 3>>

\* VescPacket::VescPacket(name, payload_size, payload_id): payload byte 0
\* is the command id
VescPacket(payload_size, payload_id) ==
    LET f == VescFrame(payload_size)
    IN  [f EXCEPT ![HeaderSize(payload_size) + 1] = payload_id]

\* the payload range [payload_.first, payload_.second) of a frame built for
\* payload_size bytes
PayloadOf(frame, payload_size) ==
    SubSeq(frame, HeaderSize(payload_size) + 1,
           HeaderSize(payload_size) + payload_size)

\* the CRC stored low byte first
WriteCrcLowFirst(frame, payload_size) ==
    LET crc == Calculate(PayloadOf(frame, payload_size))
    IN  [frame EXCEPT ![Len(frame) - 2] = crc % 256,
                      ![Len(frame) - 1] = crc \div 256]

\* the closing statements of every encoder: CRC over the payload range,
\* stored big-endian at frame_->end() - 3 and frame_->end() - 2
WriteCrc(frame, payload_size) ==
    LET crc == Calculate(PayloadOf(frame, payload_size))
    IN  [frame EXCEPT ![Len(frame) - 2] = crc \div 256,
                      ![Len(frame) - 1] = crc % 256]

\* ------------------------------------------------------------------------
\* Packet catalog: outgoing command encoders
\* ------------------------------------------------------------------------
\* static_cast<int32_t>(x) of the double num / den: the fractional part is
\* discarded (truncation toward zero)
TruncCast(num, den) ==
    IF num >= 0 THEN num \div den ELSE -((-num) \div den)

\* (static_cast<uint32_t>(v) >> k) & 0xFF of a signed v: the bits of the
\* two's-complement pattern; \div rounds toward minus infinity and % is
\* non-negative, which is that pattern's arithmetic
ByteAt(v, k) == (v \div (2 ^ k)) % 256

\* the four stores of a 32-bit field to payload bytes 1..4
Store32(frame, v) ==
    [frame EXCEPT ![4] = ByteAt(v, 24),
                  ![5] = ByteAt(v, 16),
                  ![6] = ByteAt(v, 8),
                  ![7] = ByteAt(v, 0)]

\* the two stores of a 16-bit field to payload bytes 1..2
Store16(frame, v) ==
    [frame EXCEPT ![4] = ByteAt(v, 8),
                  ![5] = ByteAt(v, 0)]

\* the encoders take the numerator of their double argument (value =
\* num / ValueDen) and return the finished frame
VescPacketSetDuty(num) ==
    WriteCrc(Store32(VescPacket(5, COMM_SET_DUTY),
                     TruncCast(num * 100000, ValueDen)), 5)

\* variant: the CRC is taken before the field is stored
SetCurrentCrcFirst(num) ==
    Store32(WriteCrc(VescPacket(5, COMM_SET_CURRENT), 5),
            TruncCast(num * 1000, ValueDen))

VescPacketSetCurrent(num) ==
    WriteCrc(Store32(VescPacket(5, COMM_SET_CURRENT),
                     TruncCast(num * 1000, ValueDen)), 5)

VescPacketSetCurrentBrake(num) ==
    WriteCrc(Store32(VescPacket(5, COMM_SET_CURRENT_BRAKE),
                     TruncCast(num * 1000, ValueDen)), 5)

VescPacketSetRPM(num) ==
    WriteCrc(Store32(VescPacket(5, COMM_SET_RPM),
                     TruncCast(num, ValueDen)), 5)

VescPacketSetPos(num) ==
    WriteCrc(Store32(VescPacket(5, COMM_SET_POS),
                     TruncCast(num * 1000000, ValueDen)), 5)

VescPacketSetServoPos(num) ==
    WriteCrc(Store16(VescPacket(3, COMM_SET_SERVO_POS),
                     TruncCast(num * 1000, ValueDen)), 3)

VescPacketRequestFWVersion == WriteCrc(VescPacket(1, COMM_FW_VERSION), 1)

VescPacketRequestValues == WriteCrc(VescPacket(1, COMM_GET_VALUES), 1)

\* ------------------------------------------------------------------------
\* Packet catalog: incoming decoders
\* ------------------------------------------------------------------------
\* *(payload_.first + k) on a frame whose header has hdr bytes
At(frame, hdr, k) == frame[hdr + k + 1]

\* TRUE iff payload offset k lies inside the frame's own buffer
InBuffer(frame, hdr, k) == hdr + k + 1 <= Len(frame)

\* the offsets i at which the name loop of the firmware-version decoder
\* stops: 3 + i is the first zero byte at or after payload offset 3
NameStops(frame, hdr) ==
    {i \in 0..Len(frame) :
        /\ InBuffer(frame, hdr, 3 + i)
        /\ At(frame, hdr, 3 + i) = 0
        /\ \A h \in 0..(i - 1) : At(frame, hdr, 3 + h) # 0}

\* value of j after the name loop and the j++ that follows it
NameJ(i) == IF i = 0 THEN 1 ELSE i

\* highest payload offset the firmware-version decoder reads when the name
\* loop stops at i
FWLastOffset(i) == 3 + NameJ(i) + 2 + 12 + 1

\* TRUE iff the firmware-version decoder stays inside the frame's buffer:
\* the name loop meets a zero byte and the device-version byte exists
FWDefined(frame, hdr) ==
    \E i \in NameStops(frame, hdr) : InBuffer(frame, hdr, FWLastOffset(i))

\* VescPacketFWVersion::VescPacketFWVersion(raw), when it is defined
VescPacketFWVersion(frame, hdr) ==
    LET i == CHOOSE x \in NameStops(frame, hdr) : TRUE
        j == NameJ(i)
    IN  [name |-> "FWVersion", frame |-> frame,
         major |-> At(frame, hdr, 1), minor |-> At(frame, hdr, 2),
         hwname |-> [h \in 1..i |-> At(frame, hdr, 3 + h - 1)],
         uuid |-> [u \in 1..12 |-> At(frame, hdr, 3 + j + 1 + u - 1)],
         paired |-> At(frame, hdr, 3 + j + 1 + 12),
         devVersion |-> At(frame, hdr, 3 + j + 2 + 12 + 1)]

\* the packet a firmware-version decode leaves behind when it read outside
\* the frame's buffer and the process survived: the frame is intact, the
\* decoded members hold whatever was read
FWGarbage(frame) ==
    [name |-> "FWVersion", frame |-> frame, major |-> 0, minor |-> 0,
     hwname |-> <<>>, uuid |-> <<>>, paired |-> 0, devVersion |-> 0]

\* VescPacketValues::VescPacketValues(raw): keeps the frame, reads nothing
VescPacketValues(frame) ==
    [name |-> "Values", frame |-> frame, major |-> 0, minor |-> 0,
     hwname |-> <<>>, uuid |-> <<>>, paired |-> 0, devVersion |-> 0]

\* REGISTER_PACKET_TYPE: the command ids that have a decoder
Registered == {COMM_FW_VERSION, COMM_GET_VALUES}

\* ------------------------------------------------------------------------
\* Frame decode and packet factory
\* ------------------------------------------------------------------------
IsSOF(b) == b = VESC_SOF_VAL_SMALL_FRAME \/ b = VESC_SOF_VAL_LARGE_FRAME

\* header length selected by the start marker
HdrOf(b) == IF b[1] = VESC_SOF_VAL_SMALL_FRAME THEN 2 ELSE 3

\* declared payload length of a candidate whose length field is present
DeclaredLen(b) ==
    IF b[1] = VESC_SOF_VAL_SMALL_FRAME THEN b[2] ELSE b[2] * 256 + b[3]

\* decode that checks the terminator and not the CRC
DecodeUnchecked(b) ==
    IF Len(b) < HdrOf(b)
    THEN [kind |-> "need", n |-> VESC_MIN_FRAME_SIZE, size |-> 0]
    ELSE LET plen == DeclaredLen(b)
             total == HdrOf(b) + plen + 3
         IN  IF plen > VESC_MAX_PAYLOAD_SIZE
             THEN [kind |-> "invalid", n |-> 0, size |-> 0]
             ELSE IF Len(b) < total
             THEN [kind |-> "need", n |-> total - Len(b), size |-> total]
             ELSE IF b[total] = VESC_EOF_VAL
             THEN [kind |-> "frame", n |-> 0, size |-> total]
             ELSE [kind |-> "invalid", n |-> 0, size |-> 0]

\* Frame Codec decode of a buffer that starts at a start marker:
\* kind is "frame", "need" (with n bytes missing) or "invalid"
Decode(b) ==
    IF Len(b) < HdrOf(b)
    THEN [kind |-> "need", n |-> VESC_MIN_FRAME_SIZE, size |-> 0]
    ELSE LET plen == DeclaredLen(b)
             total == HdrOf(b) + plen + 3
         IN  IF plen > VESC_MAX_PAYLOAD_SIZE
             THEN [kind |-> "invalid", n |-> 0, size |-> 0]
             ELSE IF Len(b) < total
             THEN [kind |-> "need", n |-> total - Len(b), size |-> total]
             ELSE IF /\ b[total] = VESC_EOF_VAL
                     /\ b[total - 2] * 256 + b[total - 1]
                           = Calculate(SubSeq(b, HdrOf(b) + 1, HdrOf(b) + plen))
             THEN [kind |-> "frame", n |-> 0, size |-> total]
             ELSE [kind |-> "invalid", n |-> 0, size |-> 0]

\* VescPacketFactory::createPacket(begin, end, &bytes_needed, &error):
\* kind is "packet" (decoder found, ctor names it), "need", "invalid" or
\* "unknown" (valid frame without a registered decoder); a null packet
\* comes back with bytes_needed > 0 only for "need"
createPacket(b) ==
    LET d == Decode(b)
        hdr == HdrOf(b)
    IN  IF d.kind # "frame"
        THEN [kind |-> d.kind, bytes_needed |-> d.n, size |-> d.size,
              ctor |-> "none"]
        ELSE IF DeclaredLen(b) > 0 /\ b[hdr + 1] \in Registered
        THEN [kind |-> "packet", bytes_needed |-> 0, size |-> d.size,
              ctor |-> IF b[hdr + 1] = COMM_FW_VERSION
                       THEN "FWVersion" ELSE "Values"]
        ELSE [kind |-> "unknown", bytes_needed |-> 0, size |-> d.size,
              ctor |-> "none"]

\* ------------------------------------------------------------------------
\* Byte streams the transport delivers
\* ------------------------------------------------------------------------
\* a frame as the controller puts it on the wire: envelope around the
\* payload, CRC over the payload
WireFrame(payload) ==
    LET n == Len(payload)
        f == VescFrame(n)
        h == HeaderSize(n)
    IN  WriteCrc([i \in 1..Len(f) |->
                    IF i > h /\ i <= h + n THEN payload[i - h] ELSE f[i]], n)

Seg(tag, bytes) == [tag |-> tag, bytes |-> bytes]

\* valid frames with a registered command id
FV1 == WireFrame(<<4>>)
FV2 == WireFrame(<<4, 7>>)
FFW == WireFrame(<<0, 3, 1, 65, 0, 7, 7, 7, 7, 7, 7, 7, 7, 7, 7, 7, 7, 1, 0, 9>>)
\* valid frames with a registered command id whose payload is shorter than
\* the firmware-version layout
FFWShort == WireFrame(<<0>>)
FFWNoUuid == WireFrame(<<0, 3, 1, 65, 0, 7>>)
\* valid frames without a registered decoder; the second one carries the
\* bytes of FV1 in its payload
FUnk == WireFrame(<<9>>)
FUnkEmb == WireFrame(<<9>> \o FV1)
\* corrupt frames: bad CRC, bad terminator, declared length out of range,
\* truncated
BadCrc == [FV2 EXCEPT ![Len(FV2) - 1] = (FV2[Len(FV2) - 1] + 1) % 256]
BadTerm == [FV1 EXCEPT ![Len(FV1)] = 9]
BadLen == <<3, 5, 0, 4, 0, 0, 9>>
Trunc == <<2, 9, 4, 7>>
TruncLong == <<2, 40, 4, 7>>

\* the garbage byte values tried in front of a frame
GarbageBytes == {0, 2, 3, 5, 200}

Scenarios ==
    {<<Seg("frame", FV1), Seg("frame", FV2)>>,
     <<Seg("frame", FV2), Seg("frame", FV1), Seg("frame", FV1)>>,
     <<Seg("frame", FV1)>>,
     <<Seg("frame", FV2)>>,
     <<Seg("frame", FFW)>>,
     <<Seg("frame", FFWShort)>>,
     <<Seg("frame", FFWNoUuid), Seg("frame", FV1)>>,
     <<Seg("frame", FV1), Seg("frame", FFW)>>,
     <<Seg("unknown", FUnk), Seg("frame", FV1)>>,
     <<Seg("unknown", FUnkEmb), Seg("frame", FV2)>>}
    \cup {<<Seg("corrupt", c), Seg("frame", FV1), Seg("frame", FV2)>> :
            c \in {BadCrc, BadTerm, BadLen, Trunc, TruncLong}}
    \cup {<<Seg("garbage", <<g1, g2>>), Seg("frame", FV1)>> :
            g1 \in GarbageBytes, g2 \in GarbageBytes}

\* the streams used where connect and disconnect interleave with the link
LifeScenarios ==
    {<<Seg("frame", FV1), Seg("frame", FV2)>>,
     <<Seg("garbage", <<2, 0>>), Seg("frame", FV1)>>,
     <<Seg("frame", FFWShort)>>}

RECURSIVE Flatten(_)
Flatten(segs) ==
    IF segs = <<>> THEN <<>> ELSE Head(segs).bytes \o Flatten(Tail(segs))

\* the frames of the segments tagged as valid, in stream order
RECURSIVE FramesOf(_)
FramesOf(segs) ==
    IF segs = <<>> THEN <<>>
    ELSE (IF Head(segs).tag = "frame" THEN <<Head(segs).bytes>> ELSE <<>>)
            \o FramesOf(Tail(segs))

\* ------------------------------------------------------------------------
\* State
\* ------------------------------------------------------------------------
VARIABLES
    wire,                \* the segments the transport will deliver (input)
    sent,                \* number of wire bytes handed to the callback
    ncalls,              \* number of serial_receive_callback calls made
    ppc,                 \* producer: "idle" or "lock" (waiting for the mutex)
    pend,                \* size of the chunk of the call in progress
    buffer_,             \* Impl::buffer_
    buffer_mutex_,       \* Impl::buffer_mutex_: "free", "consumer", "producer"
    packet_thread_run_,  \* Impl::packet_thread_run_
    packet_thread_,      \* Impl::packet_thread_: "null", "joinable", "joined"
    tpc,                 \* consumer thread: "none", "loop", "scan", "handler",
                         \* "trim", "exited", "crashed"
    iter,                \* the scan cursor, as an offset into buffer_
    bytes_needed,        \* local of packet_creation_thread
    cur,                 \* the packet handed to the running handler
    dispatched,          \* packets handed to packet_handler_, in order
    passPackets,         \* frames dispatched in the current scan pass
    reported,            \* messages handed to error_handler_, in order
    scanned,             \* a scan pass ended after the last append
    port,                \* serial port: "null", "closed", "open"
    async_rx,            \* async_receive is registered on the open port
    mpc,                 \* caller inside disconnect(): "idle", "join", "close"
    lastError,           \* exception surfaced by the last connect/disconnect
    nconn,               \* number of successful connect() calls
    txCmd, txNum, tx,    \* last encoder call: command, argument, frame
    txId,                \* command id given to the packet constructor
    decFrame,            \* the received frame handed to a packet constructor
    decOut,              \* what the constructor and the accessor produced
    decReads             \* payload offsets read while doing so

decVars == <<decFrame, decOut, decReads>>

vars == <<wire, sent, ncalls, ppc, pend, buffer_, buffer_mutex_,
          packet_thread_run_, packet_thread_, tpc, iter, bytes_needed, cur,
          dispatched, passPackets, reported, scanned, port, async_rx, mpc,
          lastError, nconn, txCmd, txNum, tx, txId, decVars>>

linkVars == <<wire, sent, ncalls, ppc, pend, buffer_, buffer_mutex_,
              packet_thread_run_, packet_thread_, tpc, iter, bytes_needed,
              cur, dispatched, passPackets, reported, scanned, port,
              async_rx, mpc, lastError, nconn>>

NoPacket ==
    [name |-> "none", frame |-> <<>>, major |-> 0, minor |-> 0,
     hwname |-> <<>>, uuid |-> <<>>, paired |-> 0, devVersion |-> 0]

Stream == Flatten(wire)

\* no frame has been handed to a constructor or to the frame codec yet
NoOutcome ==
    [kind |-> "none", packet |-> NoPacket, field |-> "none", value |-> 0,
     size |-> 0]

NothingDecoded == decFrame = <<>> /\ decOut = NoOutcome /\ decReads = {}

\* the process has not been aborted
Alive == tpc # "crashed"

\* state right after VescInterface(port = "", ...): nothing connected
InitLink ==
    /\ sent = 0 /\ ncalls = 0 /\ ppc = "idle" /\ pend = 0
    /\ buffer_ = <<>> /\ buffer_mutex_ = "free"
    /\ packet_thread_run_ \in BOOLEAN
    /\ packet_thread_ = "null"
    /\ tpc = "none" /\ iter = 0 /\ bytes_needed = 0 /\ cur = NoPacket
    /\ dispatched = <<>> /\ passPackets = <<>> /\ reported = <<>>
    /\ scanned = FALSE
    /\ port = "null" /\ async_rx = FALSE
    /\ mpc = "idle" /\ lastError = "none" /\ nconn = 0

Init ==
    /\ wire \in LifeScenarios
    /\ InitLink
    /\ txCmd = "none" /\ txNum = 0 /\ tx = <<>>
    /\ txId = 0
    /\ NothingDecoded

\* ------------------------------------------------------------------------
\* Producer: serial_receive_callback
\* ------------------------------------------------------------------------
\* the transport calls the callback with the next k bytes of the stream;
\* the call starts by asking for the mutex
DeliverCall ==
    /\ Alive /\ ppc = "idle" /\ port = "open" /\ async_rx
    /\ \E k \in 1..(Len(Stream) - sent) : pend' = k
    /\ ppc' = "lock"
    /\ ncalls' = ncalls + 1
    /\ UNCHANGED <<wire, sent, buffer_, buffer_mutex_, packet_thread_run_,
                   packet_thread_, tpc, iter, bytes_needed, cur, dispatched,
                   passPackets, reported, scanned, port, async_rx, mpc,
                   lastError, nconn, txCmd, txNum, tx, txId, decVars>>

\* lock(), reserve, insert at the end, unlock()
serial_receive_callback ==
    /\ Alive /\ ppc = "lock" /\ buffer_mutex_ = "free"
    /\ buffer_' = buffer_ \o SubSeq(Stream, sent + 1, sent + pend)
    /\ sent' = sent + pend
    /\ pend' = 0
    /\ ppc' = "idle"
    /\ scanned' = FALSE
    /\ UNCHANGED <<wire, ncalls, buffer_mutex_, packet_thread_run_,
                   packet_thread_, tpc, iter, bytes_needed, cur, dispatched,
                   passPackets, reported, port, async_rx, mpc, lastError,
                   nconn, txCmd, txNum, tx, txId, decVars>>

\* ------------------------------------------------------------------------
\* Consumer: packet_creation_thread
\* ------------------------------------------------------------------------
\* packet_thread_run_ is a plain bool written by the caller and read by the
\* thread without synchronisation: after it was cleared the thread may
\* still read the value it had before
RunFlagReads == IF packet_thread_run_ THEN {TRUE} ELSE {TRUE, FALSE}

\* while (packet_thread_run_) reads false: the thread function returns
ThreadExit ==
    /\ tpc = "loop"
    /\ FALSE \in RunFlagReads
    /\ tpc' = "exited"
    /\ UNCHANGED <<wire, sent, ncalls, ppc, pend, buffer_, buffer_mutex_,
                   packet_thread_run_, packet_thread_, iter, bytes_needed,
                   cur, dispatched, passPackets, reported, scanned, port,
                   async_rx, mpc, lastError, nconn, txCmd, txNum, tx, txId, decVars>>

\* loop head: flag read as true, mutex taken; an empty buffer is released
\* again at once, otherwise the scan starts at buffer_.begin()
PassBegin ==
    /\ tpc = "loop"
    /\ TRUE \in RunFlagReads
    /\ buffer_mutex_ = "free"
    /\ bytes_needed' = VESC_MIN_FRAME_SIZE
    /\ IF buffer_ = <<>>
       THEN /\ scanned' = TRUE
            /\ UNCHANGED <<tpc, iter, buffer_mutex_, passPackets>>
       ELSE /\ tpc' = "scan"
            /\ iter' = 0
            /\ buffer_mutex_' = "consumer"
            /\ passPackets' = <<>>
            /\ UNCHANGED scanned
    /\ UNCHANGED <<wire, sent, ncalls, ppc, pend, buffer_,
                   packet_thread_run_, packet_thread_, cur, dispatched,
                   reported, port, async_rx, mpc, lastError, nconn,
                   txCmd, txNum, tx, txId, decVars>>

\* the bytes from the cursor to buffer_.end()
Rest == SubSeq(buffer_, iter + 1, Len(buffer_))

\* position of the thread once the cursor stands at offset n: the inner
\* while loop ends when the cursor reaches buffer_.end()
AfterCursor(n) == IF n = Len(buffer_) THEN "trim" ELSE "scan"

\* cursor after a candidate that gave no packet and needs no more bytes,
\* and after a byte that is no start marker: iter++
Skip(it, r) == it + 1

\* cursor after the handler returned: iter + packet->frame().size()
PastFrame(it, packet) == it + Len(packet.frame)

\* what a decoder that read outside the frame's buffer can lead to
UBOutcomes == {"crash", "garbage"}

\* packet_handler_(packet): the handler starts running
CallHandler(packet) ==
    /\ cur' = packet
    /\ tpc' = "handler"
    /\ dispatched' = Append(dispatched, packet)
    /\ passPackets' = Append(passPackets, packet.frame)
    /\ bytes_needed' = 0
    /\ UNCHANGED iter

\* one iteration of the inner while loop, up to the call of the handler
ScanStep ==
    /\ tpc = "scan"
    /\ iter < Len(buffer_)
    /\ IF IsSOF(buffer_[iter + 1])
       THEN LET r == createPacket(Rest)
                frame == SubSeq(Rest, 1, r.size)
            IN  IF r.kind = "packet"
                THEN /\ IF r.ctor = "Values"
                        THEN CallHandler(VescPacketValues(frame))
                        ELSE IF FWDefined(frame, HdrOf(frame))
                        THEN CallHandler(VescPacketFWVersion(frame, HdrOf(frame)))
                        ELSE \E o \in UBOutcomes :
                                IF o = "crash"
                                THEN /\ tpc' = "crashed"
                                     /\ UNCHANGED <<cur, dispatched,
                                                    passPackets, iter,
                                                    bytes_needed>>
                                ELSE CallHandler(FWGarbage(frame))
                ELSE IF r.bytes_needed > 0
                THEN /\ tpc' = "trim"
                     /\ bytes_needed' = r.bytes_needed
                     /\ UNCHANGED <<iter, cur, dispatched, passPackets>>
                ELSE /\ iter' = Skip(iter, r)
                     /\ tpc' = AfterCursor(Skip(iter, r))
                     /\ bytes_needed' = r.bytes_needed
                     /\ UNCHANGED <<cur, dispatched, passPackets>>
       ELSE /\ iter' = iter + 1
            /\ tpc' = AfterCursor(iter + 1)
            /\ UNCHANGED <<bytes_needed, cur, dispatched, passPackets>>
    /\ UNCHANGED <<wire, sent, ncalls, ppc, pend, buffer_, buffer_mutex_,
                   packet_thread_run_, packet_thread_, reported, scanned,
                   port, async_rx, mpc, lastError, nconn, txCmd, txNum, tx, txId, decVars>>

\* the handler returns: advance past the frame and go on scanning
HandlerReturn ==
    /\ tpc = "handler"
    /\ iter' = PastFrame(iter, cur)
    /\ tpc' = AfterCursor(PastFrame(iter, cur))
    /\ cur' = NoPacket
    /\ UNCHANGED <<wire, sent, ncalls, ppc, pend, buffer_, buffer_mutex_,
                   packet_thread_run_, packet_thread_, bytes_needed, dispatched,
                   passPackets, reported, scanned, port, async_rx, mpc,
                   lastError, nconn, txCmd, txNum, tx, txId, decVars>>

\* erase of as many bytes at the buffer's end
EraseFromEnd(buf, it) == SubSeq(buf, 1, Len(buf) - it)

\* erase that takes the byte under the cursor as well
EraseThroughCursor(buf, it) == SubSeq(buf, it + 2, Len(buf))

\* buffer_.erase(buffer_.begin(), iter)
EraseUsed(buf, it) == SubSeq(buf, it + 1, Len(buf))

\* after the inner loop: reset bytes_needed at the buffer end, erase the
\* used bytes, unlock, sleep
Trim ==
    /\ tpc = "trim"
    /\ bytes_needed' = IF iter = Len(buffer_)
                       THEN VESC_MIN_FRAME_SIZE ELSE bytes_needed
    /\ buffer_' = EraseUsed(buffer_, iter)
    /\ buffer_mutex_' = "free"
    /\ iter' = 0
    /\ tpc' = "loop"
    /\ scanned' = TRUE
    /\ UNCHANGED <<wire, sent, ncalls, ppc, pend, packet_thread_run_,
                   packet_thread_, cur, dispatched, passPackets, reported,
                   port, async_rx, mpc, lastError, nconn, txCmd, txNum, tx, txId, decVars>>

\* ------------------------------------------------------------------------
\* Caller: connect, disconnect, isConnected
\* ------------------------------------------------------------------------
\* VescInterface::isConnected()
\* variant: the port is never reported open
isConnectedNever == FALSE

isConnected == port = "open"

\* connect() on a connected interface throws before touching anything
ConnectAlready ==
    /\ Alive /\ mpc = "idle"
    /\ isConnected
    /\ lastError' = "Already connected"
    /\ UNCHANGED <<wire, sent, ncalls, ppc, pend, buffer_, buffer_mutex_,
                   packet_thread_run_, packet_thread_, tpc, iter,
                   bytes_needed, cur, dispatched, passPackets, reported,
                   scanned, port, async_rx, mpc, nconn, txCmd, txNum, tx, txId, decVars>>

\* connect(): Impl::connect opens the port and registers the receive
\* callback, then the run flag is set and the thread is started
Connect ==
    /\ Alive /\ mpc = "idle"
    /\ ~isConnected
    /\ nconn < MaxConnects
    /\ port' = "open"
    /\ async_rx' = TRUE
    /\ packet_thread_run_' = TRUE
    /\ packet_thread_' = "joinable"
    /\ tpc' = "loop"
    /\ nconn' = nconn + 1
    /\ lastError' = "none"
    /\ UNCHANGED <<wire, sent, ncalls, ppc, pend, buffer_, buffer_mutex_,
                   iter, bytes_needed, cur, dispatched, passPackets,
                   reported, scanned, mpc, txCmd, txNum, tx, txId, decVars>>

\* connect(): Impl::connect throws, with the port left closed or, when
\* setting the options failed after the open, left open; the exception is
\* rethrown as SerialException before the thread is started
ConnectFail ==
    /\ Alive /\ mpc = "idle"
    /\ ~isConnected
    /\ \E leftOpen \in BOOLEAN :
          port' = IF leftOpen THEN "open" ELSE "closed"
    /\ async_rx' = FALSE
    /\ lastError' = "Failed to open the serial port"
    /\ UNCHANGED <<wire, sent, ncalls, ppc, pend, buffer_, buffer_mutex_,
                   packet_thread_run_, packet_thread_, tpc, iter,
                   bytes_needed, cur, dispatched, passPackets, reported,
                   scanned, mpc, nconn, txCmd, txNum, tx, txId, decVars>>

\* disconnect() without a thread object: nothing is done
DisconnectNoThread ==
    /\ Alive /\ mpc = "idle"
    /\ packet_thread_ = "null"
    /\ lastError' = "none"
    /\ UNCHANGED <<wire, sent, ncalls, ppc, pend, buffer_, buffer_mutex_,
                   packet_thread_run_, packet_thread_, tpc, iter,
                   bytes_needed, cur, dispatched, passPackets, reported,
                   scanned, port, async_rx, mpc, nconn, txCmd, txNum, tx, txId, decVars>>

\* disconnect(): packet_thread_run_ = false
DisconnectBegin ==
    /\ Alive /\ mpc = "idle"
    /\ packet_thread_ # "null"
    /\ packet_thread_run_' = FALSE
    /\ mpc' = "join"
    /\ lastError' = "none"
    /\ UNCHANGED <<wire, sent, ncalls, ppc, pend, buffer_, buffer_mutex_,
                   packet_thread_, tpc, iter, bytes_needed, cur, dispatched,
                   passPackets, reported, scanned, port, async_rx, nconn,
                   txCmd, txNum, tx, txId, decVars>>

\* variant: the caller does not wait for the thread function to return
JoinWithoutWaiting == TRUE

\* join() returns once the thread function has returned
JoinReturns == tpc = "exited"

\* disconnect(): packet_thread_->join() on a joinable thread
DisconnectJoin ==
    /\ Alive /\ mpc = "join"
    /\ packet_thread_ = "joinable"
    /\ JoinReturns
    /\ packet_thread_' = "joined"
    /\ mpc' = "close"
    /\ UNCHANGED <<wire, sent, ncalls, ppc, pend, buffer_, buffer_mutex_,
                   packet_thread_run_, tpc, iter, bytes_needed, cur,
                   dispatched, passPackets, reported, scanned, port,
                   async_rx, lastError, nconn, txCmd, txNum, tx, txId, decVars>>

\* disconnect(): join() on a thread object that was joined before throws
\* std::system_error; the close() after it is not reached
DisconnectJoinThrows ==
    /\ Alive /\ mpc = "join"
    /\ packet_thread_ = "joined"
    /\ mpc' = "idle"
    /\ lastError' = "system_error"
    /\ UNCHANGED <<wire, sent, ncalls, ppc, pend, buffer_, buffer_mutex_,
                   packet_thread_run_, packet_thread_, tpc, iter,
                   bytes_needed, cur, dispatched, passPackets, reported,
                   scanned, port, async_rx, nconn, txCmd, txNum, tx, txId, decVars>>

\* disconnect(): serial_driver_->port()->close()
DisconnectClose ==
    /\ Alive /\ mpc = "close"
    /\ port' = "closed"
    /\ async_rx' = FALSE
    /\ mpc' = "idle"
    /\ UNCHANGED <<wire, sent, ncalls, ppc, pend, buffer_, buffer_mutex_,
                   packet_thread_run_, packet_thread_, tpc, iter,
                   bytes_needed, cur, dispatched, passPackets, reported,
                   scanned, lastError, nconn, txCmd, txNum, tx, txId, decVars>>

\* ------------------------------------------------------------------------
\* Specification of the link
\* ------------------------------------------------------------------------
Next ==
    \/ DeliverCall
    \/ serial_receive_callback
    \/ ThreadExit
    \/ PassBegin
    \/ ScanStep
    \/ HandlerReturn
    \/ Trim
    \/ ConnectAlready
    \/ Connect
    \/ ConnectFail
    \/ DisconnectNoThread
    \/ DisconnectBegin
    \/ DisconnectJoin
    \/ DisconnectJoinThrows
    \/ DisconnectClose

Spec == Init /\ [][Next]_vars

\* ------------------------------------------------------------------------
\* Specification of one connection: the state right after a successful
\* connect(), and the producer and the consumer running on every stream
\* ------------------------------------------------------------------------
InitScan ==
    /\ wire \in Scenarios
    /\ sent = 0 /\ ncalls = 0 /\ ppc = "idle" /\ pend = 0
    /\ buffer_ = <<>> /\ buffer_mutex_ = "free"
    /\ packet_thread_run_ = TRUE
    /\ packet_thread_ = "joinable"
    /\ tpc = "loop" /\ iter = 0 /\ bytes_needed = 0 /\ cur = NoPacket
    /\ dispatched = <<>> /\ passPackets = <<>> /\ reported = <<>>
    /\ scanned = FALSE
    /\ port = "open" /\ async_rx = TRUE
    /\ mpc = "idle" /\ lastError = "none" /\ nconn = 1
    /\ txCmd = "none" /\ txNum = 0 /\ tx = <<>>
    /\ txId = 0
    /\ NothingDecoded

NextScan ==
    \/ DeliverCall
    \/ serial_receive_callback
    \/ PassBegin
    \/ ScanStep
    \/ HandlerReturn
    \/ Trim

SpecScan == InitScan /\ [][NextScan]_vars

\* ------------------------------------------------------------------------
\* Specification of the command senders: on a connected interface the
\* caller encodes a command and hands the frame to the port
\* ------------------------------------------------------------------------
Nums == (-MaxNum)..MaxNum

\* send(packet): port()->async_send(packet.frame()); the argument of the
\* call is the one drawn in the initial state, one call per behaviour
send(cmd, frame) ==
    /\ port = "open"
    /\ txCmd = "none"
    /\ txCmd' = cmd
    /\ tx' = frame
    /\ UNCHANGED <<txNum, txId>>
    /\ UNCHANGED linkVars
    /\ UNCHANGED decVars

setDutyCycle == send("SetDuty", VescPacketSetDuty(txNum))

setCurrent == send("SetCurrent", VescPacketSetCurrent(txNum))

setBrake == send("SetCurrentBrake", VescPacketSetCurrentBrake(txNum))

setSpeed == send("SetRPM", VescPacketSetRPM(txNum))

setPosition == send("SetPos", VescPacketSetPos(txNum))

setServo == send("SetServoPos", VescPacketSetServoPos(txNum))

requestFWVersion == send("RequestFWVersion", VescPacketRequestFWVersion)

requestState == send("RequestValues", VescPacketRequestValues)

InitEnc ==
    /\ wire = <<Seg("frame", FV1)>>
    /\ sent = 0 /\ ncalls = 0 /\ ppc = "idle" /\ pend = 0
    /\ buffer_ = <<>> /\ buffer_mutex_ = "free"
    /\ packet_thread_run_ = TRUE
    /\ packet_thread_ = "joinable"
    /\ tpc = "loop" /\ iter = 0 /\ bytes_needed = 0 /\ cur = NoPacket
    /\ dispatched = <<>> /\ passPackets = <<>> /\ reported = <<>>
    /\ scanned = FALSE
    /\ port = "open" /\ async_rx = TRUE
    /\ mpc = "idle" /\ lastError = "none" /\ nconn = 1
    /\ txCmd = "none" /\ txNum \in Nums /\ tx = <<>>
    /\ txId = 0
    /\ NothingDecoded

NextEnc ==
    \/ setDutyCycle
    \/ setCurrent
    \/ setBrake
    \/ setSpeed
    \/ setPosition
    \/ setServo
    \/ requestFWVersion
    \/ requestState

SpecEnc == InitEnc /\ [][NextEnc]_vars

\* ------------------------------------------------------------------------
\* Specification of the packet decoders: the factory hands one valid frame
\* with a registered command id to its constructor, then the caller of a
\* values packet calls one accessor
\* ------------------------------------------------------------------------
\* longest hardware name in the firmware-version payloads
MaxNameLen == 2

\* number of payload bytes of a frame
PayloadLen(frame) == DeclaredLen(frame)

\* payload offsets VescPacketFWVersion's constructor reads: offsets 1 and
\* 2, the name up to the byte that stops the loop, then the three fields
\* placed by j; without a zero byte the loop runs past the buffer's end
FWReads(frame, hdr) ==
    LET stops == NameStops(frame, hdr)
    IN  IF stops = {}
        THEN 1..(Len(frame) - hdr)
        ELSE LET i == CHOOSE x \in stops : TRUE
                 j == NameJ(i)
             IN  (1..(3 + i)) \cup ((3 + j + 1)..(3 + j + 1 + 12))
                     \cup {3 + j + 2 + 12 + 1}

\* the accessors of VescPacketValues: first payload offset, width in
\* bytes, divisor of the returned double (1 for the integer accessors)
ValuesFields ==
    [temp_fet |-> <<1, 2, 10>>, temp_motor |-> <<3, 2, 10>>,
     avg_motor_current |-> <<5, 4, 100>>, avg_input_current |-> <<9, 4, 100>>,
     avg_id |-> <<13, 4, 100>>, avg_iq |-> <<17, 4, 100>>,
     duty_cycle_now |-> <<21, 2, 1000>>, rpm |-> <<23, 4, 1>>,
     v_in |-> <<27, 2, 10>>, amp_hours |-> <<29, 4, 10000>>,
     amp_hours_charged |-> <<33, 4, 10000>>, watt_hours |-> <<37, 4, 10000>>,
     watt_hours_charged |-> <<41, 4, 10000>>, tachometer |-> <<45, 4, 1>>,
     tachometer_abs |-> <<49, 4, 1>>, fault_code |-> <<53, 1, 1>>,
     pid_pos_now |-> <<54, 4, 1000000>>, controller_id |-> <<58, 1, 1>>,
     temp_mos1 |-> <<59, 2, 10>>, temp_mos2 |-> <<61, 2, 10>>,
     temp_mos3 |-> <<63, 2, 10>>, avg_vd |-> <<65, 4, 1000>>,
     avg_vq |-> <<69, 4, 1000>>]

FieldNames == DOMAIN ValuesFields

\* the integer an accessor builds from the bytes at off: the two- and
\* four-byte fields are shifted together and cast to int16_t / int32_t,
\* the one-byte fields are cast from the uint8_t as it is
FieldInt(frame, hdr, off, width) ==
    LET b0 == At(frame, hdr, off)
        hi == IF b0 >= 128 THEN b0 - 256 ELSE b0
    IN  IF width = 1 THEN b0
        ELSE IF width = 2 THEN hi * 256 + At(frame, hdr, off + 1)
        ELSE hi * 16777216 + At(frame, hdr, off + 1) * 65536
                 + At(frame, hdr, off + 2) * 256 + At(frame, hdr, off + 3)

\* payload offsets the accessor of field f reads
FieldReads(f) ==
    ValuesFields[f][1]..(ValuesFields[f][1] + ValuesFields[f][2] - 1)

\* payloads the controller can send
FWName(len) == [h \in 1..len |-> 64 + h]

FWUuid == [u \in 1..12 |-> 100 + u]

\* firmware-version payload: versions, name, NUL, id, paired flag, device
\* version, then the bytes in tail
FWPayload(len, tail) ==
    <<COMM_FW_VERSION, 3, 1>> \o FWName(len) \o <<0>> \o FWUuid \o <<1, 9>>
        \o tail

FWTails == {<<>>, <<77>>, <<77, 88>>}

\* every firmware-version payload and every non-empty prefix of one
FWPayloads ==
    UNION {{SubSeq(p, 1, n) : n \in 1..Len(p)} :
              p \in {FWPayload(len, tail) :
                         len \in 0..MaxNameLen, tail \in FWTails}}

ValuesLayoutLen == 73

\* values payloads: a ramp of bytes, or every data byte 0xFF
ValuesPayload(fill) ==
    [k \in 1..(ValuesLayoutLen + 2) |->
        IF k = 1 THEN COMM_GET_VALUES
        ELSE IF fill = "ones" THEN 255 ELSE (k * 37) % 256]

ValuesLens == {1, 2, 54, 70, 72, 73, 75}

ValuesPayloads ==
    {SubSeq(ValuesPayload(fill), 1, n) :
        fill \in {"ramp", "ones"}, n \in ValuesLens}

DecFrames == {WireFrame(p) : p \in FWPayloads \cup ValuesPayloads}

IsFWFrame(frame) ==
    /\ frame # <<>>
    /\ createPacket(frame).ctor = "FWVersion"

IsValuesFrame(frame) ==
    /\ frame # <<>>
    /\ createPacket(frame).ctor = "Values"

\* REGISTER_PACKET_TYPE(COMM_FW_VERSION, VescPacketFWVersion): the factory
\* runs the constructor on the validated frame
ConstructFWVersion ==
    /\ decOut.kind = "none"
    /\ IsFWFrame(decFrame)
    /\ decReads' = FWReads(decFrame, HdrOf(decFrame))
    /\ IF FWDefined(decFrame, HdrOf(decFrame))
       THEN decOut' = [decOut EXCEPT !.kind = "packet",
                          !.packet = VescPacketFWVersion(decFrame,
                                                         HdrOf(decFrame))]
       ELSE \E o \in UBOutcomes :
               decOut' = IF o = "crash"
                         THEN [decOut EXCEPT !.kind = "crash"]
                         ELSE [decOut EXCEPT !.kind = "packet",
                                  !.packet = FWGarbage(decFrame)]
    /\ UNCHANGED <<decFrame, txCmd, txNum, tx, txId>>
    /\ UNCHANGED linkVars

\* REGISTER_PACKET_TYPE(COMM_GET_VALUES, VescPacketValues)
ConstructValues ==
    /\ decOut.kind = "none"
    /\ IsValuesFrame(decFrame)
    /\ decOut' = [decOut EXCEPT !.kind = "packet",
                     !.packet = VescPacketValues(decFrame)]
    /\ UNCHANGED <<decFrame, decReads, txCmd, txNum, tx, txId>>
    /\ UNCHANGED linkVars

\* one accessor call on the values packet; a read outside the frame's
\* buffer is undefined
ReadValuesField ==
    /\ decOut.kind = "packet"
    /\ decOut.packet.name = "Values"
    /\ \E f \in FieldNames :
          LET hdr == HdrOf(decFrame)
              off == ValuesFields[f][1]
              width == ValuesFields[f][2]
          IN  /\ decReads' = decReads \cup FieldReads(f)
              /\ IF InBuffer(decFrame, hdr, off + width - 1)
                 THEN decOut' = [decOut EXCEPT !.kind = "value", !.field = f,
                                    !.value = FieldInt(decFrame, hdr, off,
                                                       width)]
                 ELSE \E o \in UBOutcomes :
                         decOut' = IF o = "crash"
                                   THEN [decOut EXCEPT !.kind = "crash",
                                            !.field = f]
                                   ELSE [decOut EXCEPT !.kind = "value",
                                            !.field = f, !.value = 0]
    /\ UNCHANGED <<decFrame, txCmd, txNum, tx, txId>>
    /\ UNCHANGED linkVars

InitDec ==
    /\ wire = <<Seg("frame", FV1)>>
    /\ sent = 0 /\ ncalls = 0 /\ ppc = "idle" /\ pend = 0
    /\ buffer_ = <<>> /\ buffer_mutex_ = "free"
    /\ packet_thread_run_ = TRUE
    /\ packet_thread_ = "joinable"
    /\ tpc = "loop" /\ iter = 0 /\ bytes_needed = 0 /\ cur = NoPacket
    /\ dispatched = <<>> /\ passPackets = <<>> /\ reported = <<>>
    /\ scanned = FALSE
    /\ port = "open" /\ async_rx = TRUE
    /\ mpc = "idle" /\ lastError = "none" /\ nconn = 1
    /\ txCmd = "none" /\ txNum = 0 /\ tx = <<>>
    /\ txId = 0
    /\ decFrame \in DecFrames /\ decOut = NoOutcome /\ decReads = {}

NextDec ==
    \/ ConstructFWVersion
    \/ ConstructValues
    \/ ReadValuesField

SpecDec == InitDec /\ [][NextDec]_vars

\* ------------------------------------------------------------------------
\* Specification of the frame codec on the encoders' output: the frame a
\* command sender produced comes back through decode, as sent or with one
\* payload bit flipped on the way
\* ------------------------------------------------------------------------
\* frame with bit number bit (0 = least significant) of byte pos inverted
FlipBit(frame, pos, bit) ==
    [frame EXCEPT ![pos] = IF (frame[pos] \div (2 ^ bit)) % 2 = 1
                           THEN frame[pos] - 2 ^ bit
                           ELSE frame[pos] + 2 ^ bit]

\* the outcome of decode on frame, with the big-endian field at payload
\* offset 1 read back when asked for
Decoded(frame, how, width) ==
    LET d == Decode(frame)
    IN  [NoOutcome EXCEPT !.kind = d.kind,
                          !.size = d.size,
                          !.field = how,
                          !.value = IF width = 0 THEN 0
                                    ELSE FieldInt(frame, HdrOf(frame), 1,
                                                  width)]

SentFieldWidth ==
    IF txCmd \in {"RequestFWVersion", "RequestValues"} THEN 0
    ELSE IF txCmd = "SetServoPos" THEN 2 ELSE 4

\* decode of the frame exactly as it was sent
DecodeSent ==
    /\ txCmd # "none"
    /\ decOut.kind = "none"
    /\ decFrame' = tx
    /\ decOut' = Decoded(tx, "sent", SentFieldWidth)
    /\ UNCHANGED <<decReads, txCmd, txNum, tx, txId>>
    /\ UNCHANGED linkVars

\* decode of the sent frame with one bit of one payload byte inverted and
\* the CRC bytes as the encoder wrote them
DecodeFlipped ==
    /\ txCmd # "none"
    /\ decOut.kind = "none"
    /\ \E k \in 1..PayloadLen(tx), bit \in 0..7 :
          /\ decFrame' = FlipBit(tx, HdrOf(tx) + k, bit)
          /\ decOut' = Decoded(decFrame', "flipped", 0)
    /\ UNCHANGED <<decReads, txCmd, txNum, tx, txId>>
    /\ UNCHANGED linkVars

NextCodec ==
    \/ setDutyCycle
    \/ setCurrent
    \/ setBrake
    \/ setSpeed
    \/ setPosition
    \/ setServo
    \/ requestFWVersion
    \/ requestState
    \/ DecodeSent
    \/ DecodeFlipped

SpecCodec == InitEnc /\ [][NextCodec]_vars

\* ------------------------------------------------------------------------
\* Specification of the envelope: one packet is constructed for a payload
\* size and a command id
\* ------------------------------------------------------------------------
PayloadSizes == 0..VESC_MAX_PAYLOAD_SIZE

PayloadIds == {0, 4, 255}

\* offsets of payload_.first and payload_.second from frame_->begin()
PayloadFirst(payload_size) == HeaderSize(payload_size)

PayloadSecond(payload_size) == PayloadFirst(payload_size) + payload_size

\* assert(std::distance(payload_.first, payload_.second) > 0) on an empty
\* range: the process aborts, or, in a build without assertions, the
\* constructor goes on and writes the command id at payload_.first
AssertOutcomes == {"abort", "ndebug"}

\* VescPacket(name, payload_size, payload_id)
encode ==
    /\ txCmd = "none"
    /\ IF PayloadSecond(txNum) - PayloadFirst(txNum) > 0
       THEN /\ txCmd' = "encode"
            /\ tx' = VescPacket(txNum, txId)
       ELSE \E o \in AssertOutcomes :
               IF o = "abort"
               THEN txCmd' = "abort" /\ tx' = <<>>
               ELSE txCmd' = "encode" /\ tx' = VescPacket(txNum, txId)
    /\ UNCHANGED <<txNum, txId>>
    /\ UNCHANGED linkVars
    /\ UNCHANGED decVars

InitFrame ==
    /\ wire = <<Seg("frame", FV1)>>
    /\ InitLink
    /\ txCmd = "none" /\ txNum \in PayloadSizes /\ tx = <<>>
    /\ txId \in PayloadIds
    /\ NothingDecoded

NextFrame == encode

SpecFrame == InitFrame /\ [][NextFrame]_vars

\* ------------------------------------------------------------------------
\* Properties of the encoders
\* ------------------------------------------------------------------------
\* the last call was setCurrent(12.5)
SetCurrent12_5 == txCmd = "SetCurrent" /\ txNum * 2 = 25 * ValueDen

\* a small frame around the 5 payload bytes p: marker, length, payload,
\* big-endian CRC over exactly p, terminator
Framed5(p) ==
    <<2, 5>> \o p \o <<Calculate(p) \div 256, Calculate(p) % 256, 3>>

\* C9 as stated: set current = 12.5 gives the payload bytes
\* [command_id, 0x00, 0x00, 0x30, 0xD8], then the big-endian CRC over
\* those 5 bytes, then the terminator 3
C9_AsStated ==
    SetCurrent12_5 => tx = Framed5(<<COMM_SET_CURRENT, 0, 0, 48, 216>>)

\* C9 amended: set current = 12.5 gives the payload bytes
\* [command_id, 0x00, 0x00, 0x30, 0xD4] (12500 = 0x30D4), then the
\* big-endian CRC over those 5 bytes, then the terminator 3
C9_SetCurrentFrame ==
    SetCurrent12_5 => tx = Framed5(<<COMM_SET_CURRENT, 0, 0, 48, 212>>)

C9_Witness == SetCurrent12_5 /\ Len(tx) = 10 /\ tx[7] = 212

\* the commands that carry a scaled field, the scale and the field width
Setters ==
    {"SetDuty", "SetCurrent", "SetCurrentBrake", "SetRPM", "SetPos",
     "SetServoPos"}

ScaleOf(cmd) ==
    CASE cmd = "SetDuty" -> 100000
      [] cmd = "SetCurrent" -> 1000
      [] cmd = "SetCurrentBrake" -> 1000
      [] cmd = "SetRPM" -> 1
      [] cmd = "SetPos" -> 1000000
      [] cmd = "SetServoPos" -> 1000

\* round(num / den): nearest integer, halves away from zero
RoundDiv(num, den) ==
    IF num >= 0 THEN (2 * num + den) \div (2 * den)
    ELSE -((2 * (-num) + den) \div (2 * den))

\* big-endian two's-complement bytes of v on w bytes
BigEndian(v, w) == [i \in 1..w |-> ByteAt(v, 8 * (w - i))]

FieldWidth(cmd) == IF cmd = "SetServoPos" THEN 2 ELSE 4

\* C10: the integer every outgoing encoder writes is round(value x scale),
\* big-endian two's complement in payload bytes 1..4 (1..2 for servo)
C10_RoundedField ==
    txCmd \in Setters =>
        SubSeq(tx, 4, 3 + FieldWidth(txCmd))
            = BigEndian(RoundDiv(txNum * ScaleOf(txCmd), ValueDen),
                        FieldWidth(txCmd))

\* ------------------------------------------------------------------------
\* Properties of the link
\* ------------------------------------------------------------------------
DispatchedFrames == [i \in DOMAIN dispatched |-> dispatched[i].frame]

IsPrefix(a, b) == Len(a) <= Len(b) /\ a = SubSeq(b, 1, Len(a))

\* every byte of the stream was delivered and nothing more will be
\* dispatched: a scan pass ended after the last append, or the process
\* was aborted
Settled ==
    /\ sent = Len(Stream)
    /\ ppc = "idle"
    /\ (tpc = "crashed" \/ (tpc = "loop" /\ scanned))

\* the stream is a concatenation of valid frames with registered ids
AllFrames == \A i \in DOMAIN wire : wire[i].tag = "frame"

\* number of leading frames of the stream that lie entirely within its
\* first n bytes
RECURSIVE CompleteFrames(_, _)
CompleteFrames(frames, n) ==
    IF frames = <<>> \/ Len(Head(frames)) > n THEN 0
    ELSE 1 + CompleteFrames(Tail(frames), n - Len(Head(frames)))

\* the scan cursor stands on a start marker; Candidate is what the packet
\* factory makes of the bytes from there
AtCandidate ==
    tpc = "scan" /\ iter < Len(buffer_) /\ IsSOF(buffer_[iter + 1])

Candidate == createPacket(Rest)

\* C1: while the packet handler runs, the receive-buffer lock is not held,
\* so a concurrent deliver can take it
C1_HandlerRunsUnlocked == tpc = "handler" => buffer_mutex_ = "free"

\* C2: on a stream of valid frames with registered ids, under any chunking
\* and interleaving, the handler is invoked once per frame in stream order
\* (never an extra, repeated or reordered frame; every frame once the
\* stream is delivered and scanned), and a pass dispatches every frame
\* that is complete in the buffer
C2_OncePerFrameInOrder ==
    AllFrames =>
        /\ IsPrefix(DispatchedFrames, FramesOf(wire))
        /\ (Settled => DispatchedFrames = FramesOf(wire))
        /\ (tpc = "trim" =>
                Len(dispatched) = CompleteFrames(FramesOf(wire), sent))

\* the stream is one valid frame
SingleFrame == Len(wire) = 1 /\ wire[1].tag = "frame"

\* the packet the decoder makes of frame f delivered whole
WholePacket(f) ==
    IF f[HdrOf(f) + 1] = COMM_GET_VALUES THEN VescPacketValues(f)
    ELSE IF FWDefined(f, HdrOf(f)) THEN VescPacketFWVersion(f, HdrOf(f))
    ELSE FWGarbage(f)

\* C3: a valid frame delivered in two calls, split anywhere, with scan
\* passes before, between and after, gives exactly one handler call with
\* the packet of the whole frame; a pass that sees only the prefix
\* dispatches nothing and keeps the prefix
C3_SplitFrameDecodesOnce ==
    (SingleFrame /\ ncalls <= 2) =>
        /\ Len(dispatched) <= 1
        /\ (Settled => dispatched = <<WholePacket(wire[1].bytes)>>)
        /\ ((tpc = "loop" /\ scanned /\ sent < Len(Stream)) =>
                dispatched = <<>> /\ buffer_ = SubSeq(Stream, 1, sent))

\* the stream is two garbage bytes, at least one of them a start marker,
\* followed by a valid small frame
GarbageThenFrame ==
    /\ Len(wire) = 2
    /\ wire[1].tag = "garbage"
    /\ IsSOF(wire[1].bytes[1]) \/ IsSOF(wire[1].bytes[2])

\* C4: a scan pass over [g1, g2] ++ F, one of g1, g2 a start marker and no
\* further bytes arriving, dispatches F
C4_ResyncFindsFrame ==
    (GarbageThenFrame /\ ncalls = 1 /\ Settled) =>
        DispatchedFrames = <<wire[2].bytes>>

\* the stream is a corrupt frame followed by valid frames
CorruptThenFrames == wire[1].tag = "corrupt"

\* C5: the valid frames that follow a corrupt frame are all dispatched
\* once the stream is delivered and the consumer has scanned it
C5_CorruptFrameDoesNotHalt ==
    (CorruptThenFrames /\ Settled) => DispatchedFrames = FramesOf(wire)

\* C6: disconnect clears the run flag, joins the thread, then closes the
\* port: the flag is clear while joining and closing, the thread function
\* has returned before the close, and whenever the port is not open no
\* consumer thread scans or dispatches
C6_ShutdownOrder ==
    /\ mpc \in {"join", "close"} => ~packet_thread_run_
    /\ mpc = "close" => tpc = "exited" /\ packet_thread_ = "joined"
    /\ port # "open" => tpc \in {"none", "exited"}

C6_Witness ==
    /\ port = "closed"
    /\ packet_thread_ = "joined"
    /\ tpc = "exited"
    /\ dispatched # <<>>

\* C7: at a complete CRC-valid frame without a registered decoder the
\* cursor advances by the frame's full length and nothing is dispatched
C7_UnknownFrameSkippedWhole ==
    [][(AtCandidate /\ Candidate.kind = "unknown") =>
          /\ iter' = iter + Candidate.size
          /\ dispatched' = dispatched]_vars

\* C8: an Invalid or UnknownCommand candidate gives one error-handler call
\* with a message; a NeedMoreBytes candidate gives no error-handler call
\* and no packet-handler call
C8_AnomaliesReported ==
    [][/\ (AtCandidate /\ Candidate.kind \in {"invalid", "unknown"}) =>
              Len(reported') = Len(reported) + 1
       /\ (AtCandidate /\ Candidate.kind = "need") =>
              reported' = reported /\ dispatched' = dispatched]_vars


\* ------------------------------------------------------------------------
\* Properties of the packet decoders
\* ------------------------------------------------------------------------
\* the name field has its terminating zero inside the payload
NameTerminated(frame) ==
    \E i \in NameStops(frame, HdrOf(frame)) : 3 + i < PayloadLen(frame)

\* payload offset of the zero byte that ends the name
NulOffset(frame) ==
    3 + (CHOOSE i \in NameStops(frame, HdrOf(frame)) : TRUE)

\* C11: decoding a firmware-version payload never reads a byte at or after
\* the payload's end, and a payload without a zero byte between the start
\* of the name field and its end fails with a decode error
C11_FWDecodeInsidePayload ==
    (IsFWFrame(decFrame) /\ decOut.kind # "none") =>
        /\ \A k \in decReads : k < PayloadLen(decFrame)
        /\ ~NameTerminated(decFrame) => decOut.kind = "decode_error"

\* C12: a values frame whose payload is shorter than the layout (last byte
\* at payload offset 72) is rejected as malformed, and no accessor reads
\* at or after the payload's end
C12_ValuesLengthChecked ==
    (/\ IsValuesFrame(decFrame)
     /\ PayloadLen(decFrame) < ValuesLayoutLen
     /\ decOut.kind # "none") =>
        /\ decOut.kind = "decode_error"
        /\ \A k \in decReads : k < PayloadLen(decFrame)


\* ------------------------------------------------------------------------
\* Properties of the frame codec on the encoders' output
\* ------------------------------------------------------------------------
\* C13: a frame produced by an outgoing encoder, with any single payload
\* bit flipped and the CRC bytes unchanged, is Invalid for decode, and the
\* factory makes no packet of it
C13_BitFlipRejected ==
    decOut.field = "flipped" =>
        /\ decOut.kind = "invalid"
        /\ createPacket(decFrame).kind = "invalid"

\* a set-duty frame came back with a flipped payload bit and was decoded
C13_Witness ==
    /\ txCmd = "SetDuty"
    /\ decOut.field = "flipped"
    /\ decFrame # tx
    /\ decOut.kind = "invalid"

AbsDiff(a, b) == IF a >= b THEN a - b ELSE b - a

\* C14: every encoder's frame is accepted by decode as one complete valid
\* frame of exactly the produced length, and the field read back, divided
\* by the scale, is the original value to within one unit of the scale
C14_RoundTrip ==
    decOut.field = "sent" =>
        /\ decOut.kind = "frame"
        /\ decOut.size = Len(tx)
        /\ decFrame = tx
        /\ txCmd \in Setters =>
              AbsDiff(decOut.value * ValueDen, txNum * ScaleOf(txCmd))
                  <= ValueDen

\* a set-duty frame with a negative, fractional duty made the round trip
C14_Witness ==
    /\ txCmd = "SetDuty"
    /\ txNum < 0
    /\ txNum % ValueDen # 0
    /\ decOut.field = "sent"
    /\ decOut.kind = "frame"
    /\ decOut.value < 0

\* ------------------------------------------------------------------------
\* Properties of connect and disconnect
\* ------------------------------------------------------------------------
ThreadRunning == tpc \in {"loop", "scan", "handler", "trim"}

\* C15: after a connect() that failed with a transport failure the
\* interface is cleaned up: the port is not open (isConnected() is false,
\* so a later connect() is not rejected as already connected) and no
\* consumer thread is running
C15_FailedConnectCleansUp ==
    lastError = "Failed to open the serial port" =>
        /\ ~isConnected
        /\ ~ThreadRunning

\* ------------------------------------------------------------------------
\* Properties of the envelope
\* ------------------------------------------------------------------------
\* frame is the envelope around n payload bytes that start with id: start
\* marker and length field by the 256 threshold, total length, terminator,
\* command id then zeros in the payload, payload range right after the
\* header and ending 3 bytes before the frame's end
Envelope(frame, n, id) ==
    LET hdr == IF n < 256 THEN 2 ELSE 3
    IN  /\ Len(frame) = hdr + n + 2 + 1
        /\ IF n < 256
           THEN frame[1] = 2 /\ frame[2] = n
           ELSE frame[1] = 3 /\ frame[2] * 256 + frame[3] = n
                             /\ frame[2] < 256 /\ frame[3] < 256
        /\ frame[Len(frame)] = 3
        /\ n > 0 => frame[hdr + 1] = id
        /\ \A k \in 2..n : frame[hdr + k] = 0
        /\ PayloadFirst(n) = hdr
        /\ PayloadSecond(n) = Len(frame) - 3
        /\ 0 < PayloadFirst(n) /\ PayloadSecond(n) < Len(frame)

\* C16 as stated: for every payload_size in 0..1024 encode builds a frame
\* with the envelope
C16_AsStated ==
    txCmd # "none" => Envelope(tx, txNum, txId)

\* C16: for every payload_size in 1..1024 encode builds a frame with the
\* envelope: marker 2 and a one-byte length below 256, marker 3 and a
\* two-byte big-endian length from 256 on, total length header + payload
\* + 2 + 1, terminator 3 last, command id in payload byte 0 and zeros
\* after it, payload range strictly inside the frame; only payload_size 0
\* can end in the assertion
C16_EncodeEnvelope ==
    txCmd # "none" =>
        IF txNum >= 1
        THEN txCmd = "encode" /\ Envelope(tx, txNum, txId)
        ELSE txCmd \in {"abort", "encode"}

\* a packet with a two-byte length field and the highest command id was
\* built
C16_Witness ==
    /\ txCmd = "encode"
    /\ txNum = 256
    /\ txId = 255
    /\ tx[1] = 3
    /\ Len(tx) = 262

\* ------------------------------------------------------------------------
\* Properties of the receive buffer
\* ------------------------------------------------------------------------
\* the bytes handed to serial_receive_callback so far
Delivered == SubSeq(Stream, 1, sent)

IsSuffix(a, b) ==
    /\ Len(a) <= Len(b)
    /\ a = SubSeq(b, Len(b) - Len(a) + 1, Len(b))

\* C17: the receive buffer is the sequence of all bytes delivered so far
\* with some prefix removed; a step that changes it either appends the
\* newly delivered bytes at its end or removes a prefix of it
C17_BufferConservation ==
    /\ [](IsSuffix(buffer_, Delivered))
    /\ [][buffer_' # buffer_ =>
             \/ /\ sent' > sent
                /\ buffer_' = buffer_ \o SubSeq(Stream, sent + 1, sent')
             \/ /\ sent' = sent
                /\ IsSuffix(buffer_', buffer_)]_vars

\* two deliveries went in and a scan pass removed a prefix but not all
C17_Witness ==
    /\ ncalls >= 2
    /\ scanned
    /\ buffer_ # <<>>
    /\ Len(buffer_) < sent
    /\ dispatched # <<>>

\* C18: after every scan pass the receive buffer is empty or begins with a
\* start marker that heads a candidate for which the factory reported
\* NeedMoreBytes; what came before the candidate is gone, the candidate's
\* bytes are all there
C18_BufferAfterPass ==
    (tpc = "loop" /\ scanned) =>
        \/ buffer_ = <<>>
        \/ /\ IsSOF(buffer_[1])
           /\ createPacket(buffer_).kind = "need"
           /\ IsSuffix(buffer_, Delivered)

\* a pass ended with an incomplete candidate kept and the bytes before it
\* discarded
C18_Witness ==
    /\ tpc = "loop"
    /\ scanned
    /\ buffer_ # <<>>
    /\ Len(buffer_) < sent
    /\ createPacket(buffer_).kind = "need"

\* ------------------------------------------------------------------------
\* Properties of the firmware-version layout
\* ------------------------------------------------------------------------
\* C19: for every name length, the empty name included, the 12-byte id is
\* read from the bytes right after the name's zero byte, the paired flag
\* from the byte right after the id, and the device version from the byte
\* right after the paired flag
C19_FWOffsetsFollowNul ==
    (/\ IsFWFrame(decFrame)
     /\ decOut.kind # "none"
     /\ NameTerminated(decFrame)
     /\ NulOffset(decFrame) + 14 < PayloadLen(decFrame)) =>
        LET z == NulOffset(decFrame)
            hdr == HdrOf(decFrame)
        IN  /\ decOut.kind = "packet"
            /\ decOut.packet.hwname
                  = [h \in 1..(z - 3) |-> At(decFrame, hdr, 3 + h - 1)]
            /\ decOut.packet.uuid
                  = [u \in 1..12 |-> At(decFrame, hdr, z + u)]
            /\ decOut.packet.paired = At(decFrame, hdr, z + 13)
            /\ decOut.packet.devVersion = At(decFrame, hdr, z + 14)

\* C20: there is at most one consumer loop: connect() starts a thread only
\* when the port is not open and no earlier thread is still running, and
\* connect() on an open port throws "Already connected" and changes
\* nothing else
C20_OneConsumerLoop ==
    [][/\ nconn' # nconn =>
             /\ ~ThreadRunning
             /\ port # "open"
             /\ tpc \in {"none", "exited"}
             /\ tpc' = "loop"
       /\ (lastError' = "Already connected" /\ lastError' # lastError) =>
             /\ port = "open"
             /\ UNCHANGED <<wire, sent, ncalls, ppc, pend, buffer_,
                            buffer_mutex_, packet_thread_run_,
                            packet_thread_, tpc, iter, bytes_needed, cur,
                            dispatched, passPackets, reported, scanned,
                            port, async_rx, mpc, nconn>>]_vars

\* after a disconnect a second connect started a new thread, and a third
\* connect on the open port was rejected while that thread was running
C20_Witness ==
    /\ nconn = 2
    /\ ThreadRunning
    /\ port = "open"
    /\ lastError = "Already connected"

\* ------------------------------------------------------------------------
\* Properties of the values accessors
\* ------------------------------------------------------------------------
\* an accessor returned after reading only bytes of the payload
FieldReadInPayload ==
    /\ IsValuesFrame(decFrame)
    /\ decOut.kind = "value"
    /\ \A k \in FieldReads(decOut.field) : k < PayloadLen(decFrame)

\* the bytes of the payload the accessor of the returned field covers
FieldBytes ==
    [i \in 1..ValuesFields[decOut.field][2] |->
        At(decFrame, HdrOf(decFrame), ValuesFields[decOut.field][1] + i - 1)]

\* C21: every field the values decoder reads, the one-byte fault code and
\* controller id included, is the big-endian two's-complement signed
\* integer of its width at its offset, so that the byte 0xFF is -1
C21_AsStated ==
    FieldReadInPayload =>
        LET w == ValuesFields[decOut.field][2]
        IN  /\ BigEndian(decOut.value, w) = FieldBytes
            /\ w = 1 => decOut.value \in (-128)..127
            /\ w = 2 => decOut.value \in (-32768)..32767

\* what the accessors do return: the two- and four-byte fields are
\* big-endian two's-complement signed integers (top bit set gives a
\* negative value), the one-byte fields are unsigned
ValuesFieldIntegers ==
    FieldReadInPayload =>
        LET w == ValuesFields[decOut.field][2]
        IN  /\ BigEndian(decOut.value, w) = FieldBytes
            /\ w = 1 => decOut.value \in 0..255
            /\ w = 2 => decOut.value \in (-32768)..32767
            /\ (w > 1 /\ FieldBytes[1] >= 128) => decOut.value < 0
            /\ (w > 1 /\ FieldBytes[1] < 128) => decOut.value >= 0

\* ------------------------------------------------------------------------
\* Properties of a repeated disconnect
\* ------------------------------------------------------------------------
\* a disconnect() after a successful connect() has run to its end and
\* nothing was connected since
Disconnected == packet_thread_ = "joined" /\ port = "closed"

\* C22: disconnect() is idempotent: once a disconnect() has completed, a
\* further call does not get to the join again, does not close again and
\* raises no error
C22_DisconnectIdempotent ==
    Disconnected => mpc = "idle" /\ lastError # "system_error"

====
